---- MODULE Spec2Model ----
(***************************************************************************)
(* Model of hab_tool (src/hab_tool/src/main.rs): the HAB container parser  *)
(* Hab::new, the entry lookup Hab::get_file_by_index and the bounded       *)
(* reader HabFile (io::Take over the shared BufRead + Seek source).        *)
(*                                                                         *)
(* The source is a byte sequence `src`; offsets are 0-based as in the code,*)
(* the byte at offset p is src[p + 1].  Hab::new is modelled one reader    *)
(* call group at a time (magic, header, one record, one name) so that the  *)
(* order of reads and seeks inside a parse is visible in the behaviour.    *)
(***************************************************************************)
EXTENDS Integers, Sequences, FiniteSets, TLC

\* ------------------------------------------------------------------ bounds
MaxEntries == 2     \* metadata records present in a generated container
MaxNameOff == 2     \* largest name_offset in a generated record
MaxNames   == 3     \* longest generated name table, in bytes
MaxPayload == 3     \* longest generated payload region, in bytes
MaxDataOff == 1     \* largest data_offset in a generated record
MaxSize    == 2     \* largest data_size in a generated record
MaxReq     == 2     \* largest buffer length passed to one read call

\* ----------------------------------------------------------- byte helpers
Min(a, b) == IF a <= b THEN a ELSE b

\* the bytes of s at offsets from .. to-1
Slice(s, from, to) == SubSeq(s, from + 1, to)

RECURSIVE Zeros(_)
Zeros(n) == IF n = 0 THEN << >> ELSE <<0>> \o Zeros(n - 1)

\* little-endian encoding of v in w bytes (used to build containers)
RECURSIVE ToLE(_, _)
ToLE(v, w) == IF w = 0 THEN << >> ELSE <<v % 256>> \o ToLE(v \div 256, w - 1)

\* u16::from_le_bytes / u32::from_le_bytes
U16FromLE(b) == b[1] + 256 * b[2]
U32FromLE(b) == b[1] + 256 * b[2] + 65536 * b[3] + 16777216 * b[4]

MAGIC == <<72, 65, 66, 48>>          \* b"HAB0"

VARIABLES
    src,              \* the bytes of the backing source (never written)
    pos,              \* the reader's stream position (0-based offset)
    parseSeeks,       \* number of seek calls Hab::new has issued on the reader
    pc,               \* progress of Hab::new: start, header, table, names, parsed, failed
    err,              \* why Hab::new failed: none, eof, magic, utf8
    num_entries,      \* Hab::new local num_entries
    total_size,       \* Hab::new local total_size
    file_metas,       \* Hab::new local file_metas
    filenames_start,  \* Hab::new local filenames_start
    entries,          \* Hab::new local entries
    hab,              \* the value returned by Hab::new (some = FALSE: nothing returned)
    file,             \* the live HabFile (its Take limit), or NoFile
    out,              \* bytes the live HabFile has delivered to its caller
    lastOp,           \* the last call made on the Hab / HabFile: its argument, its
                      \* result, the seeks it issued, the Take limit it found
    prevDone          \* the last extraction that was read to end-of-stream

vars == <<src, pos, parseSeeks, pc, err, num_entries, total_size, file_metas,
          filenames_start, entries, hab, file, out, lastOp, prevDone>>

parseVars == <<num_entries, total_size, file_metas, filenames_start, entries>>
fileVars  == <<file, out, lastOp, prevDone>>

NoHab  == [some |-> FALSE, entries |-> << >>, total_size |-> 0, data_start |-> 0]
NoFile == [index |-> -1, limit |-> 0, eof |-> FALSE]
NoOp   == [op |-> "none", arg |-> 0, res |-> "ok", n |-> 0, rem |-> 0, seeks |-> 0]
NoDone == [index |-> -1, out |-> << >>]

\* --------------------------------------------------- the reader primitives
\* Read::read_exact succeeds iff n more bytes exist at the cursor
ReadExactOk(s, p, n) == p + n <= Len(s)

\* cursor after a read_exact that hit end-of-source: everything was consumed
EofPos(s, p) == IF p < Len(s) THEN Len(s) ELSE p

\* BufRead::read_until(delim): the bytes from offset p up to and including the
\* first delim, or up to end-of-source when there is none
RECURSIVE ReadUntil(_, _, _)
ReadUntil(s, p, delim) ==
    IF p >= Len(s) THEN << >>
    ELSE IF s[p + 1] = delim THEN <<delim>>
    ELSE <<s[p + 1]>> \o ReadUntil(s, p + 1, delim)

\* Vec::pop: drops the last element, a no-op on an empty vector
Pop(v) == IF Len(v) = 0 THEN v ELSE SubSeq(v, 1, Len(v) - 1)

\* String::from_utf8 accepts the bytes unchanged or rejects them.  Every byte
\* the generated sources contain is either ASCII (accepted) or 0xFF, which no
\* UTF-8 encoding contains (rejected).
Utf8Valid(bytes) == \A k \in 1..Len(bytes) : bytes[k] < 128

\* ensure!(buf == MAGIC)
MagicMatchesPrefix(buf) == SubSeq(buf, 1, 3) = SubSeq(MAGIC, 1, 3)
MagicMatches(buf) == buf = MAGIC

\* for _ in 0..num_entries: another record is read while fewer than n were
TableLoopRunsShort(metas, n) == Len(metas) < n - 1
TableLoopRuns(metas, n) == Len(metas) < n

\* FileMeta::from_reader on the 16 bytes of one record
FileMetaSwapped(b) ==
    [name_offset |-> U32FromLE(SubSeq(b, 5, 8)),
     data_offset |-> U32FromLE(SubSeq(b, 1, 4)),
     data_size   |-> U32FromLE(SubSeq(b, 9, 12))]
FileMetaFromBytes(b) ==
    [name_offset |-> U32FromLE(SubSeq(b, 1, 4)),
     data_offset |-> U32FromLE(SubSeq(b, 5, 8)),
     data_size   |-> U32FromLE(SubSeq(b, 9, 12))]

\* filenames_start + meta.name_offset
NameSeekTarget(start, meta) == start + meta.name_offset

\* self.entries.get(index)
GetClamped(es, index) ==
    IF Len(es) = 0 THEN [some |-> FALSE]
    ELSE [some |-> TRUE, val |-> es[Min(index, Len(es) - 1) + 1]]
Get(es, index) ==
    IF index < Len(es) THEN [some |-> TRUE, val |-> es[index + 1]]
    ELSE [some |-> FALSE]

\* Hab::num_entries
NumEntries(h) == Len(h.entries)

\* data_start + entry.meta.data_offset
AbsOffsetNoBase(data_start, meta) == meta.data_offset
AbsOffset(data_start, meta) == data_start + meta.data_offset

\* reader.seek(SeekFrom::Start(target)): the new position, from cursor cur
SeekSkipped(cur, target) == cur
SeekFromStart(cur, target) == target

\* io::Take::read: the inner read gets at most min(buf.len(), limit) bytes
TakeMaxUnbounded(n, limit) == n
TakeMax(n, limit) == Min(n, limit)

\* the counts an inner read of a max-byte buffer may return at offset p:
\* zero for an empty buffer or at end-of-source, else any non-empty prefix
InnerRead(s, p, max) ==
    IF max = 0 \/ p >= Len(s) THEN {0} ELSE 1..Min(max, Len(s) - p)

\* the lengths the inner fill_buf may expose at offset p
InnerFillBuf(s, p) ==
    IF p >= Len(s) THEN {0} ELSE 1..Min(MaxReq, Len(s) - p)

\* io::Take::fill_buf: empty once the limit is spent, else the inner buffer
\* capped at the limit
TakeFillBuf(b, limit) == IF limit = 0 THEN 0 ELSE Min(b, limit)

\* io::Take::consume: never consumes more than the limit
TakeConsume(amt, limit) == Min(amt, limit)

\* ------------------------------------------------- the containers explored
\* one 16-byte metadata record: name_offset, data_offset, data_size, reserved
RecordBytes(m) ==
    ToLE(m.name_offset, 4) \o ToLE(m.data_offset, 4) \o ToLE(m.data_size, 4)
        \o ToLE(0, 4)

RECURSIVE TableBytes(_)
TableBytes(recs) ==
    IF Len(recs) = 0 THEN << >>
    ELSE RecordBytes(Head(recs)) \o TableBytes(Tail(recs))

\* a container in the layout Hab::new reads: magic, 16 unknown bytes, the
\* entry count as u16, u16 and u32 unknown, total_size, the table, the names
\* and the payload; cnt is the count the header declares
Container(magic, cnt, recs, names, payload) ==
    magic \o Zeros(16) \o ToLE(cnt, 2) \o ToLE(0, 2) \o ToLE(0, 4)
        \o ToLE(32 + 16 * Len(recs) + Len(names) + Len(payload), 4)
        \o TableBytes(recs) \o names \o payload

Meta(no, do, ds) == [name_offset |-> no, data_offset |-> do, data_size |-> ds]

SeqsUpTo(S, n) == UNION {[1..k -> S] : k \in 0..n}

Payload(n) == [k \in 1..n |-> k]          \* the distinct bytes 1, 2, ..., n

NameA == <<97, 0>>                        \* "a\0"

\* the example container: one entry a.txt of three bytes
ExampleSource ==
    Container(MAGIC, 1, <<Meta(0, 0, 3)>>, <<97, 46, 116, 120, 116, 0>>,
              <<1, 2, 3>>)

\* name tables of every shape (terminated or not, shared, out of order) under
\* records that each hold one payload byte
NameSources ==
    { Container(MAGIC, Len(offs), [k \in 1..Len(offs) |-> Meta(offs[k], 0, 1)],
                names, Payload(1)) :
        offs \in SeqsUpTo(0..MaxNameOff, MaxEntries),
        names \in SeqsUpTo({0, 97}, MaxNames) }

\* name tables holding a byte that is not UTF-8
BadNameSources ==
    { Container(MAGIC, 1, <<Meta(0, 0, 1)>>, names, Payload(1)) :
        names \in {<<255, 0>>, <<97, 255, 0>>, <<97, 0, 255>>} }

\* payload regions of every length under entries stored back to back
\* (stride = size) or all at the same offset (stride = 0), so that entries can
\* lie inside, across or beyond the end of the source
DataSources ==
    { Container(MAGIC, n,
                [k \in 1..n |-> Meta(0, off + (k - 1) * (IF packed THEN size ELSE 0), size)],
                NameA, Payload(len)) :
        n \in 1..MaxEntries, off \in 0..MaxDataOff, size \in 0..MaxSize,
        len \in 0..MaxPayload, packed \in BOOLEAN }

\* headers that declare cnt records over a table of n, with and without
\* bytes after the table
TableSources ==
    { Container(MAGIC, cnt, [k \in 1..n |-> Meta(0, 0, 1)], tail, << >>) :
        n \in 0..MaxEntries, cnt \in 0..(MaxEntries + 1),
        tail \in {<< >>, NameA \o Payload(1)} }

\* the example container under other first four bytes, and cut short inside
\* the magic and the header
MagicSources ==
    { SubSeq(m \o SubSeq(ExampleSource, 5, Len(ExampleSource)), 1, len) :
        m \in {MAGIC, <<72, 65, 66, 49>>, <<104, 97, 98, 48>>, <<0, 0, 0, 0>>},
        len \in {0, 1, 3, 4, 5, 20, 21, 31, Len(ExampleSource)} }

Sources ==
    {ExampleSource} \cup NameSources \cup BadNameSources \cup DataSources
        \cup TableSources \cup MagicSources

\* indices a caller passes to get_file_by_index: every entry, one past the end
\* and beyond
Indices == 0..(MaxEntries + 1)

\* ------------------------------------------------------------------- Init
Init ==
    /\ src \in Sources
    /\ pos = 0
    /\ parseSeeks = 0
    /\ pc = "start"
    /\ err = "none"
    /\ num_entries = 0
    /\ total_size = 0
    /\ file_metas = << >>
    /\ filenames_start = 0
    /\ entries = << >>
    /\ hab = NoHab
    /\ file = NoFile
    /\ out = << >>
    /\ lastOp = NoOp
    /\ prevDone = NoDone

\* ------------------------------------------------------------ Hab::new
\* reader.read_magic()?
ReadMagic ==
    /\ pc = "start"
    /\ IF ReadExactOk(src, pos, 4)
         THEN /\ pos' = pos + 4
              /\ IF MagicMatches(Slice(src, pos, pos + 4))
                   THEN pc' = "header" /\ err' = "none"
                   ELSE pc' = "failed" /\ err' = "magic"
         ELSE /\ pos' = EofPos(src, pos)
              /\ pc' = "failed"
              /\ err' = "eof"
    /\ UNCHANGED <<src, parseSeeks, parseVars, hab, fileVars>>

\* read_bytes(16), read_u16 (num_entries), read_u16, read_u32, read_u32
\* (total_size): 28 bytes in five read_exact calls
ReadHeader ==
    /\ pc = "header"
    /\ IF ReadExactOk(src, pos, 28)
         THEN /\ num_entries' = U16FromLE(Slice(src, pos + 16, pos + 18))
              /\ total_size' = U32FromLE(Slice(src, pos + 24, pos + 28))
              /\ pos' = pos + 28
              /\ pc' = "table"
              /\ err' = "none"
         ELSE /\ pos' = EofPos(src, pos)
              /\ pc' = "failed"
              /\ err' = "eof"
              /\ UNCHANGED <<num_entries, total_size>>
    /\ UNCHANGED <<src, parseSeeks, file_metas, filenames_start, entries, hab, fileVars>>

\* one iteration of the table loop: FileMeta::from_reader(&mut reader)?
ReadMeta ==
    /\ pc = "table"
    /\ TableLoopRuns(file_metas, num_entries)
    /\ IF ReadExactOk(src, pos, 16)
         THEN /\ file_metas' = Append(file_metas, FileMetaFromBytes(Slice(src, pos, pos + 16)))
              /\ pos' = pos + 16
              /\ UNCHANGED <<pc, err>>
         ELSE /\ pos' = EofPos(src, pos)
              /\ pc' = "failed"
              /\ err' = "eof"
              /\ UNCHANGED file_metas
    /\ UNCHANGED <<src, parseSeeks, num_entries, total_size, filenames_start, entries,
                   hab, fileVars>>

\* the table loop is over: filenames_start = reader.stream_position()?
TableDone ==
    /\ pc = "table"
    /\ ~TableLoopRuns(file_metas, num_entries)
    /\ filenames_start' = pos
    /\ pc' = "names"
    /\ UNCHANGED <<src, pos, parseSeeks, err, num_entries, total_size, file_metas,
                   entries, hab, fileVars>>

\* one iteration of the name loop: seek, read_until(0), pop, from_utf8, push
ReadName ==
    /\ pc = "names"
    /\ Len(entries) < Len(file_metas)
    /\ LET meta   == file_metas[Len(entries) + 1]
           target == NameSeekTarget(filenames_start, meta)
           raw    == ReadUntil(src, target, 0)
           name   == Pop(raw)
       IN  /\ pos' = target + Len(raw)
           /\ parseSeeks' = parseSeeks + 1
           /\ IF Utf8Valid(name)
                THEN /\ entries' = Append(entries, [name |-> name, meta |-> meta])
                     /\ UNCHANGED <<pc, err>>
                ELSE /\ pc' = "failed"
                     /\ err' = "utf8"
                     /\ UNCHANGED entries
    /\ UNCHANGED <<src, num_entries, total_size, file_metas, filenames_start,
                   hab, fileVars>>

\* the name loop is over: data_start = reader.stream_position()?; Ok(Self{..})
NamesDone ==
    /\ pc = "names"
    /\ Len(entries) = Len(file_metas)
    /\ hab' = [some |-> TRUE, entries |-> entries, total_size |-> total_size,
               data_start |-> pos]
    /\ pc' = "parsed"
    /\ UNCHANGED <<src, pos, parseSeeks, err, parseVars, fileVars>>

\* ------------------------------------------- Hab::get_file_by_index
\* entries.get(index).context(..)? then HabFile::new: seek and take.  The
\* borrow of self.reader keeps a second HabFile from existing.
GetFileByIndex(index) ==
    /\ pc = "parsed"
    /\ file = NoFile
    /\ LET e == Get(hab.entries, index)
       IN  IF e.some
             THEN /\ pos' = SeekFromStart(pos, AbsOffset(hab.data_start, e.val.meta))
                  /\ file' = [index |-> index, limit |-> e.val.meta.data_size,
                              eof |-> FALSE]
                  /\ lastOp' = [op |-> "open", arg |-> index, res |-> "ok",
                                n |-> 0, rem |-> 0, seeks |-> 1]
             ELSE /\ lastOp' = [op |-> "open", arg |-> index, res |-> "err",
                                n |-> 0, rem |-> 0, seeks |-> 0]
                  /\ UNCHANGED <<pos, file>>
    /\ out' = << >>
    /\ UNCHANGED <<src, parseSeeks, pc, err, parseVars, hab, prevDone>>

\* ------------------------------------------------------------- HabFile
\* Read::read with a buffer of n bytes, through io::Take
Read(n) ==
    /\ file # NoFile
    /\ \E k \in (IF file.limit = 0 THEN {0}
                 ELSE InnerRead(src, pos, TakeMax(n, file.limit))) :
          /\ pos' = pos + k
          /\ out' = out \o Slice(src, pos, pos + k)
          /\ file' = [file EXCEPT !.limit = @ - k,
                                  !.eof = @ \/ (n > 0 /\ k = 0)]
          /\ lastOp' = [op |-> "read", arg |-> n, res |-> "ok", n |-> k,
                        rem |-> file.limit, seeks |-> 0]
    /\ UNCHANGED <<src, parseSeeks, pc, err, parseVars, hab, prevDone>>

\* BufRead::fill_buf followed by consume(amt) of part of the bytes shown
FillBufConsume(amt) ==
    /\ file # NoFile
    /\ \E b \in InnerFillBuf(src, pos) :
          LET shown == TakeFillBuf(b, file.limit)
              k     == TakeConsume(amt, file.limit)
          IN  /\ amt <= shown
              /\ pos' = pos + k
              /\ out' = out \o Slice(src, pos, pos + k)
              /\ file' = [file EXCEPT !.limit = @ - k, !.eof = @ \/ shown = 0]
              /\ lastOp' = [op |-> "consume", arg |-> amt, res |-> "ok",
                            n |-> k, rem |-> file.limit, seeks |-> 0]
    /\ UNCHANGED <<src, parseSeeks, pc, err, parseVars, hab, prevDone>>

\* the HabFile goes out of scope; the reader keeps its position
Drop ==
    /\ file # NoFile
    /\ prevDone' = IF file.eof THEN [index |-> file.index, out |-> out]
                   ELSE prevDone
    /\ file' = NoFile
    /\ out' = << >>
    /\ lastOp' = [op |-> "drop", arg |-> 0, res |-> "ok", n |-> 0, rem |-> 0,
                  seeks |-> 0]
    /\ UNCHANGED <<src, pos, parseSeeks, pc, err, parseVars, hab>>

Next ==
    \/ ReadMagic
    \/ ReadHeader
    \/ ReadMeta
    \/ TableDone
    \/ ReadName
    \/ NamesDone
    \/ \E index \in Indices : GetFileByIndex(index)
    \/ \E n \in 0..MaxReq : Read(n)
    \/ \E amt \in 0..MaxReq : FillBufConsume(amt)
    \/ Drop

Spec == Init /\ [][Next]_vars

\* ------------------------------------------------------------ properties
\* decoding written out on the source bytes, independent of the parser
LE16At(s, off) == s[off + 1] + 256 * s[off + 2]
LE32At(s, off) ==
    s[off + 1] + 256 * s[off + 2] + 65536 * s[off + 3] + 16777216 * s[off + 4]

\* the header's declared entry count (sources of at least 22 bytes)
Declared == LE16At(src, 20)

\* the live HabFile's entry metadata and the absolute offset of its payload
LiveMeta == hab.entries[file.index + 1].meta
LiveFrom == hab.data_start + LiveMeta.data_offset

\* C1: when the source holds all the declared bytes of entry i, a HabFile for
\* i read to end-of-stream has delivered exactly the source bytes at offsets
\* data_start + data_offset .. data_start + data_offset + data_size - 1, in
\* order, whatever the sizes of the read calls were.
C1_ExtractYieldsEntryRange ==
    (file # NoFile /\ file.eof /\ LiveFrom + LiveMeta.data_size <= Len(src))
        => out = Slice(src, LiveFrom, LiveFrom + LiveMeta.data_size)

\* an entry of several bytes at a non-zero data_offset, all of them in the
\* source, was read to end-of-stream
C1_Witness ==
    /\ file # NoFile /\ file.eof
    /\ LiveMeta.data_offset > 0
    /\ LiveMeta.data_size >= 2
    /\ LiveFrom + LiveMeta.data_size <= Len(src)
    /\ Len(out) = LiveMeta.data_size
    /\ lastOp.op = "read" /\ lastOp.n = 0 /\ lastOp.arg = 1

\* C2: a HabFile read to end-of-stream has delivered exactly data_size bytes,
\* or the extraction failed with a TruncatedPayload error.
C2_ExactSizeOrTruncatedPayload ==
    (file # NoFile /\ file.eof)
        => (Len(out) = LiveMeta.data_size \/ lastOp.res = "TruncatedPayload")

\* C3: on one HabFile, every read returns at most min(requested, remaining)
\* bytes, the total delivered never exceeds data_size, the source cursor never
\* passes the end of the entry, and a read that finds remaining = 0 returns
\* zero bytes and no error.
C3_ReadsStayInsideEntry ==
    file # NoFile =>
        /\ Len(out) <= LiveMeta.data_size
        /\ Len(out) + file.limit = LiveMeta.data_size
        /\ pos <= LiveFrom + LiveMeta.data_size
        /\ lastOp.op \in {"read", "consume"} =>
              /\ lastOp.n <= Min(lastOp.arg, lastOp.rem)
              /\ lastOp.rem = 0 => (lastOp.n = 0 /\ lastOp.res = "ok")

\* a read asking for bytes found remaining = 0 and returned nothing although
\* the source has bytes right after the entry
C3_Witness ==
    /\ file # NoFile
    /\ lastOp.op = "read" /\ lastOp.arg = MaxReq /\ lastOp.rem = 0 /\ lastOp.n = 0
    /\ LiveMeta.data_size > 0
    /\ Len(out) = LiveMeta.data_size
    /\ pos < Len(src)

\* what a HabFile for entry i yields when it is the first one opened after
\* Hab::new returned (the cursor then stands at data_start) and is read to
\* end-of-stream at once
ReadToEnd(s, from, limit) ==
    IF from >= Len(s) THEN << >> ELSE Slice(s, from, Min(from + limit, Len(s)))
FreshExtract(i) ==
    LET m == hab.entries[i + 1].meta
    IN  ReadToEnd(src, SeekFromStart(hab.data_start, AbsOffset(hab.data_start, m)),
                  m.data_size)

\* C4: after any sequence of opens, reads, drops and failed opens, a HabFile
\* for entry i read to end-of-stream has delivered what a first extraction of
\* i delivers, and the same bytes as the last complete extraction of i.
C4_ExtractionIsRepeatable ==
    (file # NoFile /\ file.eof) =>
        /\ out = FreshExtract(file.index)
        /\ prevDone.index = file.index => out = prevDone.out

\* entry i was read to the end a second time, from a cursor the earlier
\* extraction had left elsewhere
C4_Witness ==
    /\ file # NoFile /\ file.eof
    /\ prevDone.index = file.index
    /\ Len(out) > 0
    /\ NumEntries(hab) >= 2

\* the first four bytes of the source are not exactly HAB0
BadMagic == Len(src) < 4 \/ SubSeq(src, 1, 4) # MAGIC

\* C5: on a source whose first four bytes are not HAB0, Hab::new fails and
\* returns nothing, the cursor never passes offset 4 and no seek is issued.
C5_BadMagicStopsAtOffset4 ==
    BadMagic =>
        /\ ~hab.some
        /\ pos <= 4
        /\ parseSeeks = 0
        /\ pc \in {"start", "failed"}
        /\ pc = "failed" => err \in {"magic", "eof"}
        /\ file = NoFile

\* a source with four wrong magic bytes and a full header behind them failed
C5_Witness ==
    /\ BadMagic
    /\ Len(src) > 32
    /\ pc = "failed" /\ err = "magic"

\* the header declares more 16-byte records than the source has bytes for
TruncatedTable ==
    /\ Len(src) >= 32
    /\ ~BadMagic
    /\ Len(src) < 32 + 16 * Declared

\* C6: when the source ends before the declared number of records, Hab::new
\* fails in the table loop: nothing is returned, no seek was issued and no
\* name was read, and the failure comes after exactly the full records.
C6_TruncatedTableFailsBeforeNames ==
    TruncatedTable =>
        /\ ~hab.some
        /\ parseSeeks = 0
        /\ entries = << >>
        /\ file = NoFile
        /\ pc \in {"start", "header", "table", "failed"}
        /\ pc = "failed" =>
              /\ err = "eof"
              /\ Len(file_metas) = (Len(src) - 32) \div 16
              /\ Len(file_metas) < Declared

\* a table that ends in the middle of a record, after at least one full one
C6_Witness ==
    /\ TruncatedTable
    /\ pc = "failed"
    /\ Len(file_metas) >= 1
    /\ Len(src) > 32 + 16 * Len(file_metas)

\* C7: after a successful parse, num_entries() is the 16-bit count at header
\* offset 20, entry i holds the fields of the i-th table record, and every
\* entry has a name.
C7_DirectoryMatchesTable ==
    pc = "parsed" =>
        /\ hab.some
        /\ NumEntries(hab) = Declared
        /\ DOMAIN hab.entries = 1..Declared
        /\ \A i \in 1..NumEntries(hab) :
              /\ hab.entries[i].meta.name_offset = LE32At(src, 32 + 16 * (i - 1))
              /\ hab.entries[i].meta.data_offset = LE32At(src, 36 + 16 * (i - 1))
              /\ hab.entries[i].meta.data_size = LE32At(src, 40 + 16 * (i - 1))
              /\ hab.entries[i].name \in Seq(0..127)

\* a directory of two entries whose records differ
C7_Witness ==
    /\ pc = "parsed"
    /\ NumEntries(hab) = 2
    /\ hab.entries[1].meta # hab.entries[2].meta
    /\ hab.entries[2].meta.name_offset # hab.entries[2].meta.data_offset

\* C8: get_file_by_index with an index >= num_entries() fails, seeks nothing,
\* leaves the cursor where it was and creates no HabFile.
C8_BadIndexFailsWithoutSeek ==
    [][(/\ pc = "parsed"
        /\ lastOp'.op = "open"
        /\ lastOp' # lastOp
        /\ lastOp'.arg >= NumEntries(hab))
       => (/\ lastOp'.res = "err"
           /\ lastOp'.seeks = 0
           /\ pos' = pos
           /\ file' = NoFile)]_vars

\* index == num_entries() was refused on a directory with entries, after an
\* extraction had moved the cursor
C8_Witness ==
    /\ pc = "parsed"
    /\ lastOp.op = "open" /\ lastOp.res = "err"
    /\ lastOp.arg = NumEntries(hab)
    /\ NumEntries(hab) >= 1
    /\ prevDone # NoDone
    /\ pos # hab.data_start

\* the bytes from offset p up to the first 0x00, or up to end-of-source
RECURSIVE NameRun(_, _)
NameRun(s, p) ==
    IF p >= Len(s) \/ s[p + 1] = 0 THEN << >>
    ELSE <<s[p + 1]>> \o NameRun(s, p + 1)

\* the position right after the last metadata record
NameTableBase == 32 + 16 * Declared

\* C9: every entry's name is the byte run from name_table_base + name_offset
\* to the first 0x00, or to end-of-source when no 0x00 follows.
C9_NameIsRunToTerminatorOrEnd ==
    pc = "parsed" =>
        \A i \in 1..NumEntries(hab) :
            hab.entries[i].name
                = NameRun(src, NameTableBase + hab.entries[i].meta.name_offset)

HasTerminator(s, p) == \E k \in (p + 1)..Len(s) : s[k] = 0

\* C10: data_start is not below the position just past the terminator of any
\* entry's name, and is 32 for a container without entries.
C10_DataStartAfterAllNames ==
    pc = "parsed" =>
        /\ NumEntries(hab) = 0 => hab.data_start = 32
        /\ \A i \in 1..NumEntries(hab) :
              LET p == NameTableBase + hab.entries[i].meta.name_offset
              IN  HasTerminator(src, p)
                    => hab.data_start >= p + Len(NameRun(src, p)) + 1

====
